---- MODULE Spec2Model ----
(***************************************************************************)
(* A model of makeexpr (src/src/main.rs): the search for an arithmetic     *)
(* expression over all input numbers that is nearest to a target.          *)
(*                                                                         *)
(* Rational numbers are records [n, d] in lowest terms, as num_rational    *)
(* keeps them.  Indices are 0-based as in the source; TLA+ sequences are   *)
(* 1-based, so nrs[idx + 1] reads the source's nrs[idx].                   *)
(***************************************************************************)
EXTENDS Integers, Sequences, FiniteSets, TLC

(***************************************************************************)
(* Bounds of the model.                                                    *)
(***************************************************************************)
\* Spec: inputs of up to MaxLen numbers in 0..MaxVal, in every order,
\* targets in 0..MaxTarget
MaxLen == 3
MaxVal == 3
MaxTarget == 7
\* SpecTwo: two numbers in 0..TwoVal, in both orders, targets in 0..TwoTarget
TwoVal == 5
TwoTarget == 25
\* SpecWide: nondecreasing inputs of up to WideLen numbers in 0..WideVal,
\* targets in 0..WideTarget
WideLen == 4
WideVal == 6
WideTarget == 1
\* SpecPartitions: index sequences of up to MaxIdxLen indices in 0..MaxIdx
MaxIdxLen == 5
MaxIdx == 4

(***************************************************************************)
(* Operator codes: the four greatest values of the index type u8.          *)
(***************************************************************************)
ADD == 255
SUB == 254
MUL == 253
DIV == 252

\* u64::MAX does not fit TLC's 32-bit integers; the model uses the largest
\* integer TLC has.  Every value the bounded inputs can produce is far below.
U64_MAX == 2147483647

(***************************************************************************)
(* Rat = num_rational::Ratio<u64>                                          *)
(***************************************************************************)
RECURSIVE GCD(_, _)
GCD(a, b) == IF b = 0 THEN a ELSE GCD(b, a % b)

\* Ratio::new: reduce to lowest terms
RatNew(n, d) == LET g == GCD(n, d) IN [n |-> n \div g, d |-> d \div g]

FromInteger(i) == [n |-> i, d |-> 1]

RatZero == [n |-> 0, d |-> 1]

IsZero(a) == a.n = 0

RatAdd(a, b) == RatNew(a.n * b.d + b.n * a.d, a.d * b.d)

RatSub(a, b) == RatNew(a.n * b.d - b.n * a.d, a.d * b.d)

RatMul(a, b) == RatNew(a.n * b.n, a.d * b.d)

RatDiv(a, b) == RatNew(a.n * b.d, a.d * b.n)

\* Ratio::cmp, as num_rational computes it (no cross multiplication):
\* equal denominators, then equal numerators, then the integer parts, then
\* the reciprocals of the fractional parts.  -1 = Less, 0 = Equal, 1 = Greater.
IntCmp(x, y) == IF x < y THEN -1 ELSE IF x > y THEN 1 ELSE 0

RECURSIVE RatCmp(_, _)
RatCmp(a, b) ==
    IF a.d = b.d THEN IntCmp(a.n, b.n)
    ELSE IF a.n = b.n
         THEN IF a.n = 0 THEN 0 ELSE IntCmp(b.d, a.d)
         ELSE LET ai == a.n \div a.d
                  ar == a.n % a.d
                  bi == b.n \div b.d
                  br == b.n % b.d
              IN IF ai /= bi THEN IntCmp(ai, bi)
                 ELSE IF ar = 0 /\ br = 0 THEN 0
                 ELSE IF ar = 0 THEN -1
                 ELSE IF br = 0 THEN 1
                 ELSE 0 - RatCmp([n |-> a.d, d |-> ar], [n |-> b.d, d |-> br])

RatLt(a, b) == RatCmp(a, b) < 0

RatGt(a, b) == RatCmp(a, b) > 0

RatGe(a, b) == RatCmp(a, b) >= 0

(***************************************************************************)
(* struct Expr { ops, val }                                                *)
(***************************************************************************)
ExprNew(nrs, idx) == [ops |-> <<idx>>, val |-> FromInteger(nrs[idx + 1])]

ExprEmpty == [ops |-> <<>>, val |-> RatZero]

Last(s) == s[Len(s)]

\* the match on the pair of trailing operators (lines 127-150)
CombinationOps(op0, op1) ==
    IF op0 = ADD THEN
        IF op1 = ADD THEN <<"*", "/", "\\">>
        ELSE IF op1 = SUB THEN <<"*", "/", "\\">>
        ELSE IF op1 = MUL THEN <<"+", "-", "\\">>
        ELSE IF op1 = DIV THEN <<"+", "-", "\\">>
        ELSE <<"+", "-", "*", "/", "\\">>
    ELSE IF op0 = SUB THEN
        IF op1 = ADD THEN <<"*", "/", "\\">>
        ELSE IF op1 = SUB THEN <<"*", "/", "\\">>
        ELSE IF op1 = MUL THEN <<"-", "\\">>
        ELSE IF op1 = DIV THEN <<"-", "\\">>
        ELSE <<"-", "*", "/", "\\">>
    ELSE IF op0 = MUL THEN
        IF op1 = ADD THEN <<"*", "/">>
        ELSE IF op1 = SUB THEN <<"*", "/">>
        ELSE IF op1 = MUL THEN <<"+", "-", "_">>
        ELSE IF op1 = DIV THEN <<"+", "-", "_">>
        ELSE <<"+", "-", "*", "/", "_">>
    ELSE IF op0 = DIV THEN
        IF op1 = ADD THEN <<"/", "_">>
        ELSE IF op1 = SUB THEN <<"/", "_">>
        ELSE IF op1 = MUL THEN <<"+", "-", "_">>
        ELSE IF op1 = DIV THEN <<"+", "-", "_">>
        ELSE <<"+", "-", "/", "_">>
    ELSE <<"+", "-", "*", "/", "_", "\\">>

\* CombinationFor with the '/' guard testing the wrong operand
CombinationForWrongGuard(op, a, b) ==
    IF op = "+" THEN <<[op |-> op, val |-> RatAdd(a, b)]>>
    ELSE IF op = "-" THEN
        IF RatGe(a, b) THEN <<[op |-> op, val |-> RatSub(a, b)]>> ELSE <<>>
    ELSE IF op = "*" THEN <<[op |-> op, val |-> RatMul(a, b)]>>
    ELSE IF op = "/" THEN
        IF ~IsZero(a) THEN <<[op |-> op, val |-> RatDiv(a, b)]>> ELSE <<>>
    ELSE IF op = "_" THEN
        IF RatGe(b, a) THEN <<[op |-> op, val |-> RatSub(b, a)]>> ELSE <<>>
    ELSE IF op = "\\" THEN
        IF ~IsZero(a) THEN <<[op |-> op, val |-> RatDiv(b, a)]>> ELSE <<>>
    ELSE <<>>

\* one iteration of the loop over the operator characters (lines 154-187):
\* the pairs pushed for op, none when its guard fails
CombinationFor(op, a, b) ==
    IF op = "+" THEN <<[op |-> op, val |-> RatAdd(a, b)]>>
    ELSE IF op = "-" THEN
        IF RatGe(a, b) THEN <<[op |-> op, val |-> RatSub(a, b)]>> ELSE <<>>
    ELSE IF op = "*" THEN <<[op |-> op, val |-> RatMul(a, b)]>>
    ELSE IF op = "/" THEN
        IF ~IsZero(b) THEN <<[op |-> op, val |-> RatDiv(a, b)]>> ELSE <<>>
    ELSE IF op = "_" THEN
        IF RatGe(b, a) THEN <<[op |-> op, val |-> RatSub(b, a)]>> ELSE <<>>
    ELSE IF op = "\\" THEN
        IF ~IsZero(a) THEN <<[op |-> op, val |-> RatDiv(b, a)]>> ELSE <<>>
    ELSE <<>>

RECURSIVE CombinationsFrom(_, _, _, _)
CombinationsFrom(ops, i, a, b) ==
    IF i > Len(ops) THEN <<>>
    ELSE CombinationFor(ops[i], a, b) \o CombinationsFrom(ops, i + 1, a, b)

\* Expr::possible_combinations
possible_combinations(self, expr) ==
    CombinationsFrom(CombinationOps(Last(self.ops), Last(expr.ops)), 1,
                     self.val, expr.val)

\* combine with the operands of '\' left in the order of '/'
combineDivNotReversed(self, expr, op, val) ==
    [ops |-> IF op = "+" THEN self.ops \o expr.ops \o <<ADD>>
             ELSE IF op = "-" THEN self.ops \o expr.ops \o <<SUB>>
             ELSE IF op = "*" THEN self.ops \o expr.ops \o <<MUL>>
             ELSE IF op = "/" THEN self.ops \o expr.ops \o <<DIV>>
             ELSE IF op = "_" THEN expr.ops \o self.ops \o <<SUB>>
             ELSE self.ops \o expr.ops \o <<DIV>>,
     val |-> val]

\* combine with the operands of '_' left in the order of '-'
combineSubNotReversed(self, expr, op, val) ==
    [ops |-> IF op = "+" THEN self.ops \o expr.ops \o <<ADD>>
             ELSE IF op = "-" THEN self.ops \o expr.ops \o <<SUB>>
             ELSE IF op = "*" THEN self.ops \o expr.ops \o <<MUL>>
             ELSE IF op = "/" THEN self.ops \o expr.ops \o <<DIV>>
             ELSE IF op = "_" THEN self.ops \o expr.ops \o <<SUB>>
             ELSE expr.ops \o self.ops \o <<DIV>>,
     val |-> val]

\* Expr::combine
combine(self, expr, op, val) ==
    [ops |-> IF op = "+" THEN self.ops \o expr.ops \o <<ADD>>
             ELSE IF op = "-" THEN self.ops \o expr.ops \o <<SUB>>
             ELSE IF op = "*" THEN self.ops \o expr.ops \o <<MUL>>
             ELSE IF op = "/" THEN self.ops \o expr.ops \o <<DIV>>
             ELSE IF op = "_" THEN expr.ops \o self.ops \o <<SUB>>
             ELSE expr.ops \o self.ops \o <<DIV>>,
     val |-> val]

(***************************************************************************)
(* Expr::to_string: the stack of (text, operator) pairs.  A pop of the     *)
(* empty stack is the panic of unwrap(); it is reported as panicked.       *)
(***************************************************************************)
Paren(s) == "(" \o s \o ")"

Contains(chars, o) == \E i \in 1..Len(chars) : chars[i] = o

\* the match arm for one operation (lines 226-271) applied to stack ss
ToStringStep(ss, op, nrs) ==
    LET n  == Len(ss)
        e0 == ss[n]
        e1 == ss[n - 1]
        rest == SubSeq(ss, 1, n - 2)
    IN IF op = ADD THEN
           Append(rest, [s |-> e1.s \o "+" \o e0.s, o |-> "+"])
       ELSE IF op = SUB THEN
           LET s0 == IF Contains(<<"+", "-">>, e0.o) THEN Paren(e0.s) ELSE e0.s
           IN Append(rest, [s |-> e1.s \o "-" \o s0, o |-> "-"])
       ELSE IF op = MUL THEN
           LET s0 == IF Contains(<<"+", "-">>, e0.o) THEN Paren(e0.s) ELSE e0.s
               s1 == IF Contains(<<"+", "-", "/">>, e1.o) THEN Paren(e1.s) ELSE e1.s
           IN Append(rest, [s |-> s1 \o "*" \o s0, o |-> "*"])
       ELSE IF op = DIV THEN
           LET s0 == IF Contains(<<"+", "-", "*", "/">>, e0.o) THEN Paren(e0.s) ELSE e0.s
               s1 == IF Contains(<<"+", "-", "/">>, e1.o) THEN Paren(e1.s) ELSE e1.s
           IN Append(rest, [s |-> s1 \o "/" \o s0, o |-> "/"])
       ELSE Append(ss, [s |-> ToString(nrs[op + 1]), o |-> "n"])

IsOperator(op) == op \in {ADD, SUB, MUL, DIV}

RECURSIVE ToStringFrom(_, _, _, _)
ToStringFrom(ops, i, ss, nrs) ==
    IF i > Len(ops)
    THEN IF Len(ss) = 0 THEN [panicked |-> TRUE, text |-> ""]
         ELSE [panicked |-> FALSE, text |-> ss[Len(ss)].s]
    ELSE IF IsOperator(ops[i]) /\ Len(ss) < 2
         THEN [panicked |-> TRUE, text |-> ""]
         ELSE ToStringFrom(ops, i + 1, ToStringStep(ss, ops[i], nrs), nrs)

to_string(self, nrs) == ToStringFrom(self.ops, 1, <<>>, nrs)

(***************************************************************************)
(* partitions                                                              *)
(***************************************************************************)
\* Ord for Vec<Idx>: lexicographic, a proper prefix is less
RECURSIVE SeqLtFrom(_, _, _)
SeqLtFrom(s, t, i) ==
    IF i > Len(t) THEN FALSE
    ELSE IF i > Len(s) THEN TRUE
    ELSE IF s[i] /= t[i] THEN s[i] < t[i]
    ELSE SeqLtFrom(s, t, i + 1)

SeqLt(s, t) == SeqLtFrom(s, t, 1)

\* Ord for (Vec<Idx>, Vec<Idx>)
PairLt(p, q) == SeqLt(p[1], q[1]) \/ (p[1] = q[1] /\ SeqLt(p[2], q[2]))

\* the body of the loop over idxs[1..] (lines 284-297)
PartitionsStep(res, idx) ==
    [i \in 1..Len(res) |-> <<Append(res[i][1], idx), res[i][2]>>]
    \o
    [i \in 1..Len(res) |->
        LET a == res[i][1]
            b == Append(res[i][2], idx)
        IN IF Len(b) > Len(a) \/ (Len(b) = Len(a) /\ SeqLt(b, a))
           THEN <<b, a>> ELSE <<a, b>>]

RECURSIVE PartitionsLoop(_, _, _)
PartitionsLoop(res, idxs, i) ==
    IF i > Len(idxs) THEN res
    ELSE PartitionsLoop(PartitionsStep(res, idxs[i]), idxs, i + 1)

\* res.sort(): x goes after every element not greater than it
RECURSIVE InsertPair(_, _)
InsertPair(sorted, x) ==
    IF sorted = <<>> THEN <<x>>
    ELSE IF PairLt(x, Last(sorted))
         THEN Append(InsertPair(SubSeq(sorted, 1, Len(sorted) - 1), x), Last(sorted))
         ELSE Append(sorted, x)

RECURSIVE SortPairsFrom(_, _, _)
SortPairsFrom(s, i, acc) ==
    IF i > Len(s) THEN acc ELSE SortPairsFrom(s, i + 1, InsertPair(acc, s[i]))

SortPairs(s) == SortPairsFrom(s, 1, <<>>)

\* res.dedup(): drop an element equal to the one before it
RECURSIVE DedupFrom(_, _, _)
DedupFrom(s, i, acc) ==
    IF i > Len(s) THEN acc
    ELSE IF acc /= <<>> /\ Last(acc) = s[i] THEN DedupFrom(s, i + 1, acc)
    ELSE DedupFrom(s, i + 1, Append(acc, s[i]))

Dedup(s) == DedupFrom(s, 1, <<>>)

\* res.sort_by_key(|(_, b)| b.len()): stable
RECURSIVE InsertByLen(_, _)
InsertByLen(sorted, x) ==
    IF sorted = <<>> THEN <<x>>
    ELSE IF Len(x[2]) < Len(Last(sorted)[2])
         THEN Append(InsertByLen(SubSeq(sorted, 1, Len(sorted) - 1), x), Last(sorted))
         ELSE Append(sorted, x)

RECURSIVE SortByLenFrom(_, _, _)
SortByLenFrom(s, i, acc) ==
    IF i > Len(s) THEN acc ELSE SortByLenFrom(s, i + 1, InsertByLen(acc, s[i]))

SortByLen(s) == SortByLenFrom(s, 1, <<>>)

\* the removal of the pair with the empty second half (lines 304-307)
RemoveEmptyHalf(res) == IF res[1][2] = <<>> THEN Tail(res) ELSE res

\* partitions without res.dedup()
partitionsNoDedup(idxs) ==
    LET res == PartitionsLoop(<< <<(<<idxs[1]>>), <<>> >> >>, idxs, 2)
    IN RemoveEmptyHalf(SortByLen(SortPairs(res)))

partitions(idxs) ==
    LET res == PartitionsLoop(<< <<(<<idxs[1]>>), <<>> >> >>, idxs, 2)
    IN RemoveEmptyHalf(SortByLen(Dedup(SortPairs(res))))

(***************************************************************************)
(* unique_indices                                                          *)
(***************************************************************************)
\* nrs.iter().position(|&x| x == v), 0-based
Position(nrs, v) == (CHOOSE i \in 1..Len(nrs) :
                        nrs[i] = v /\ \A j \in 1..(i - 1) : nrs[j] /= v) - 1

RECURSIVE InsertIdx(_, _)
InsertIdx(sorted, x) ==
    IF sorted = <<>> THEN <<x>>
    ELSE IF x < Last(sorted)
         THEN Append(InsertIdx(SubSeq(sorted, 1, Len(sorted) - 1), x), Last(sorted))
         ELSE Append(sorted, x)

RECURSIVE SortIdxFrom(_, _, _)
SortIdxFrom(s, i, acc) ==
    IF i > Len(s) THEN acc ELSE SortIdxFrom(s, i + 1, InsertIdx(acc, s[i]))

unique_indices(nrs) ==
    SortIdxFrom([i \in 1..Len(nrs) |-> Position(nrs, nrs[i])], 1, <<>>)

(***************************************************************************)
(* expressions: the memoized generator.  The cache is a function from the  *)
(* key string to the vector of expressions; the operator returns the cache *)
(* after the call (the key it returns is CacheKey).                        *)
(***************************************************************************)
RECURSIVE CacheKeyFrom(_, _, _)
CacheKeyFrom(nrs, idxs, i) ==
    IF i = Len(idxs) THEN ToString(nrs[idxs[i] + 1])
    ELSE ToString(nrs[idxs[i] + 1]) \o "_" \o CacheKeyFrom(nrs, idxs, i + 1)

CacheKey(nrs, idxs) == CacheKeyFrom(nrs, idxs, 1)

EmptyCache == [k \in {} |-> <<>>]

CacheInsert(cache, key, map) ==
    [k \in DOMAIN cache \cup {key} |-> IF k = key THEN map ELSE cache[k]]

CacheRemove(cache, key) == [k \in DOMAIN cache \ {key} |-> cache[k]]

\* InsertCombinations pushing every combination, seen or not
RECURSIVE InsertCombinationsNoSeen(_, _, _, _, _)
InsertCombinationsNoSeen(st, expr0, expr1, combs, i) ==
    IF i > Len(combs) THEN st
    ELSE InsertCombinationsNoSeen(
            [map  |-> Append(st.map, combine(expr0, expr1, combs[i].op, combs[i].val)),
             seen |-> st.seen \cup {combs[i].val}],
            expr0, expr1, combs, i + 1)

\* the loop over possible_combinations (lines 335-341); st = [map, seen]
RECURSIVE InsertCombinations(_, _, _, _, _)
InsertCombinations(st, expr0, expr1, combs, i) ==
    IF i > Len(combs) THEN st
    ELSE LET c == combs[i]
         IN IF c.val \notin st.seen
            THEN InsertCombinations(
                    [map  |-> Append(st.map, combine(expr0, expr1, c.op, c.val)),
                     seen |-> st.seen \cup {c.val}],
                    expr0, expr1, combs, i + 1)
            ELSE InsertCombinations(st, expr0, expr1, combs, i + 1)

\* the loop over cache[&key1] (line 333)
RECURSIVE GenInner(_, _, _, _)
GenInner(st, expr0, exprs1, j) ==
    IF j > Len(exprs1) THEN st
    ELSE GenInner(InsertCombinations(st, expr0, exprs1[j],
                                     possible_combinations(expr0, exprs1[j]), 1),
                  expr0, exprs1, j + 1)

\* the loop over cache[&key0] (line 331)
RECURSIVE GenOuter(_, _, _, _)
GenOuter(st, exprs0, exprs1, i) ==
    IF i > Len(exprs0) THEN st
    ELSE GenOuter(GenInner(st, exprs0[i], exprs1, 1), exprs0, exprs1, i + 1)

RECURSIVE expressions(_, _, _)
RECURSIVE GenPartitions(_, _, _, _)

\* the loop over partitions(idxs) (lines 327-344); st = [map, seen, cache]
GenPartitions(nrs, parts, p, st) ==
    IF p > Len(parts) THEN st
    ELSE LET idxs0 == parts[p][1]
             idxs1 == parts[p][2]
             cache0 == expressions(nrs, idxs0, st.cache)
             cache1 == expressions(nrs, idxs1, cache0)
             r == GenOuter([map |-> st.map, seen |-> st.seen],
                           cache1[CacheKey(nrs, idxs0)],
                           cache1[CacheKey(nrs, idxs1)], 1)
         IN GenPartitions(nrs, parts, p + 1,
                          [map |-> r.map, seen |-> r.seen, cache |-> cache1])

expressions(nrs, idxs, cache) ==
    LET key == CacheKey(nrs, idxs)
    IN IF key \in DOMAIN cache THEN cache
       ELSE IF Len(idxs) = 1
            THEN CacheInsert(cache, key, <<ExprNew(nrs, idxs[1])>>)
            ELSE LET r == GenPartitions(nrs, partitions(idxs), 1,
                                        [map |-> <<>>, seen |-> {}, cache |-> cache])
                 IN CacheInsert(r.cache, key, r.map)

(***************************************************************************)
(* The drivers.  State of one run of main: the input, the position in      *)
(* get_nearest_expression_multiple and its locals, and what was printed.   *)
(***************************************************************************)
VARIABLES
    nrs,        \* the input numbers
    target,     \* the target number
    pc,         \* position: "start", "gen", "scan", "evict", "print", "done"
    idxs,       \* unique_indices(nrs)
    parts,      \* partitions(&idxs), the sequence the outer loop iterates
    pi,         \* position of the outer loop in parts
    cache,      \* the HashMap<String, Vec<Expr>>
    best,       \* the best expression so far
    best_min,   \* lower end of the acceptance window
    best_max,   \* upper end of the acceptance window
    trace,      \* history: the candidates examined, each with the decision taken
    out         \* result of to_string on the returned expression

vars == <<nrs, target, pc, idxs, parts, pi, cache, best, best_min, best_max,
          trace, out>>

\* nondecreasing sequences over lo..hi of length n
RECURSIVE SortedSeqs(_, _, _)
SortedSeqs(n, lo, hi) ==
    IF n = 0 THEN {<<>>}
    ELSE UNION {{<<v>> \o s : s \in SortedSeqs(n - 1, v, hi)} : v \in lo..hi}

\* the inputs of a run: 1..maxlen numbers in 0..maxval
Inputs(maxlen, maxval) == UNION {[1..n -> 0..maxval] : n \in 1..maxlen}

\* those in nondecreasing order
SortedInputs(maxlen, maxval) == UNION {SortedSeqs(n, 0, maxval) : n \in 1..maxlen}

NoOutput == [panicked |-> FALSE, text |-> ""]

\* the state when main calls get_nearest_expression(&nrs, target, ..)
InitWith(inputs, targets) ==
    /\ nrs \in inputs
    /\ target \in targets
    /\ pc = "start"
    /\ idxs = <<>>
    /\ parts = <<>>
    /\ pi = 1
    /\ cache = EmptyCache
    /\ best = ExprEmpty
    /\ best_min = RatZero
    /\ best_max = FromInteger(U64_MAX)
    /\ trace = <<>>
    /\ out = NoOutput

Init == InitWith(Inputs(MaxLen, MaxVal), 0..MaxTarget)

TwoInit == InitWith([1..2 -> 0..TwoVal], 0..TwoTarget)

WideInit == InitWith(SortedInputs(WideLen, WideVal), 0..WideTarget)

AbsDiff(val, rtarget) ==
    IF RatLt(val, rtarget) THEN RatSub(rtarget, val) ELSE RatSub(val, rtarget)

\* get_nearest_expression, one number: Expr::new(nrs, 0)
NearestOne ==
    /\ pc = "start"
    /\ Len(nrs) = 1
    /\ best' = ExprNew(nrs, 0)
    /\ pc' = "print"
    /\ UNCHANGED <<nrs, target, idxs, parts, pi, cache, best_min, best_max,
                   trace, out>>

\* Nearest2Loop that never lowers best_diff
RECURSIVE Nearest2LoopNoUpdate(_, _, _, _, _, _)
Nearest2LoopNoUpdate(st, expr0, expr1, combs, i, rtarget) ==
    IF i > Len(combs) \/ st.done THEN st
    ELSE LET val  == combs[i].val
             diff == IF RatGt(val, rtarget) THEN RatSub(val, rtarget)
                     ELSE RatSub(rtarget, val)
         IN IF RatLt(diff, st.best_diff)
            THEN Nearest2LoopNoUpdate(
                              [best      |-> combine(expr0, expr1, combs[i].op, val),
                               best_diff |-> st.best_diff,
                               done      |-> IsZero(diff)],
                              expr0, expr1, combs, i + 1, rtarget)
            ELSE Nearest2LoopNoUpdate(st, expr0, expr1, combs, i + 1, rtarget)

\* the loop of get_nearest_expression_2 (lines 452-470); st = [best, best_diff, done]
RECURSIVE Nearest2Loop(_, _, _, _, _, _)
Nearest2Loop(st, expr0, expr1, combs, i, rtarget) ==
    IF i > Len(combs) \/ st.done THEN st
    ELSE LET val  == combs[i].val
             diff == IF RatGt(val, rtarget) THEN RatSub(val, rtarget)
                     ELSE RatSub(rtarget, val)
         IN IF RatLt(diff, st.best_diff)
            THEN Nearest2Loop([best      |-> combine(expr0, expr1, combs[i].op, val),
                               best_diff |-> diff,
                               done      |-> IsZero(diff)],
                              expr0, expr1, combs, i + 1, rtarget)
            ELSE Nearest2Loop(st, expr0, expr1, combs, i + 1, rtarget)

get_nearest_expression_2(ns, t) ==
    LET expr0 == ExprNew(ns, 0)
        expr1 == ExprNew(ns, 1)
    IN Nearest2Loop([best |-> ExprEmpty, best_diff |-> FromInteger(U64_MAX),
                     done |-> FALSE],
                    expr0, expr1, possible_combinations(expr0, expr1), 1,
                    FromInteger(t)).best

Nearest2 ==
    /\ pc = "start"
    /\ Len(nrs) = 2
    /\ best' = get_nearest_expression_2(nrs, target)
    /\ pc' = "print"
    /\ UNCHANGED <<nrs, target, idxs, parts, pi, cache, best_min, best_max,
                   trace, out>>

\* get_nearest_expression_multiple up to the head of the outer loop
\* (lines 388-396)
MultipleBegin ==
    /\ pc = "start"
    /\ Len(nrs) >= 3
    /\ cache' = EmptyCache
    /\ best' = ExprEmpty
    /\ best_min' = RatZero
    /\ best_max' = FromInteger(U64_MAX)
    /\ idxs' = unique_indices(nrs)
    /\ parts' = partitions(unique_indices(nrs))
    /\ pi' = 1
    /\ pc' = "gen"
    /\ UNCHANGED <<nrs, target, trace, out>>

\* the two calls of expressions for the current partition (lines 398-399)
Generate ==
    /\ pc = "gen"
    /\ cache' = expressions(nrs, parts[pi][2],
                            expressions(nrs, parts[pi][1], cache))
    /\ pc' = "scan"
    /\ UNCHANGED <<nrs, target, idxs, parts, pi, best, best_min, best_max,
                   trace, out>>

\* the loop over possible_combinations (lines 404-424);
\* st = [best, best_min, best_max, done, trace]
RECURSIVE ScanCombinations(_, _, _, _, _, _)
ScanCombinations(st, expr0, expr1, combs, i, rtarget) ==
    IF i > Len(combs) \/ st.done THEN st
    ELSE LET val == combs[i].val
         IN IF RatGt(val, st.best_min) /\ RatLt(val, st.best_max)
            THEN LET diff == AbsDiff(val, rtarget)
                 IN ScanCombinations(
                        [best     |-> combine(expr0, expr1, combs[i].op, val),
                         best_min |-> IF RatGt(diff, rtarget) THEN RatZero
                                      ELSE RatSub(rtarget, diff),
                         best_max |-> RatAdd(rtarget, diff),
                         done     |-> IsZero(diff),
                         trace    |-> Append(st.trace, [val |-> val, accepted |-> TRUE])],
                        expr0, expr1, combs, i + 1, rtarget)
            ELSE ScanCombinations(
                        [st EXCEPT !.trace = Append(@, [val |-> val, accepted |-> FALSE])],
                        expr0, expr1, combs, i + 1, rtarget)

\* the loop over cache[&key1] (line 402)
RECURSIVE ScanInner(_, _, _, _, _)
ScanInner(st, expr0, exprs1, j, rtarget) ==
    IF j > Len(exprs1) \/ st.done THEN st
    ELSE ScanInner(ScanCombinations(st, expr0, exprs1[j],
                                    possible_combinations(expr0, exprs1[j]), 1,
                                    rtarget),
                   expr0, exprs1, j + 1, rtarget)

\* the loop over cache[&key0] (line 400)
RECURSIVE ScanOuter(_, _, _, _, _)
ScanOuter(st, exprs0, exprs1, i, rtarget) ==
    IF i > Len(exprs0) \/ st.done THEN st
    ELSE ScanOuter(ScanInner(st, exprs0[i], exprs1, 1, rtarget),
                   exprs0, exprs1, i + 1, rtarget)

\* lines 400-426 for the current partition; the break of 'outer leaves the
\* function with best
Scan ==
    /\ pc = "scan"
    /\ LET st == ScanOuter([best |-> best, best_min |-> best_min,
                            best_max |-> best_max, done |-> FALSE,
                            trace |-> trace],
                           cache[CacheKey(nrs, parts[pi][1])],
                           cache[CacheKey(nrs, parts[pi][2])], 1,
                           FromInteger(target))
       IN /\ best' = st.best
          /\ best_min' = st.best_min
          /\ best_max' = st.best_max
          /\ trace' = st.trace
          /\ pc' = IF st.done THEN "print" ELSE "evict"
    /\ UNCHANGED <<nrs, target, idxs, parts, pi, cache, out>>

\* lines 428-432, and the step of the outer loop
Evict ==
    /\ pc = "evict"
    /\ LET key0 == CacheKey(nrs, parts[pi][1])
           key1 == CacheKey(nrs, parts[pi][2])
           c0 == CacheRemove(cache, key0)
       IN cache' = IF Len(parts[pi][2]) >= Len(parts[pi][1])
                   THEN CacheRemove(c0, key1) ELSE c0
    /\ pi' = pi + 1
    /\ pc' = IF pi + 1 > Len(parts) THEN "print" ELSE "gen"
    /\ UNCHANGED <<nrs, target, idxs, parts, best, best_min, best_max,
                   trace, out>>

\* main, line 531: render the returned expression
PrintResult ==
    /\ pc = "print"
    /\ out' = to_string(best, nrs)
    /\ pc' = "done"
    /\ UNCHANGED <<nrs, target, idxs, parts, pi, cache, best, best_min,
                   best_max, trace>>

Next ==
    \/ NearestOne
    \/ Nearest2
    \/ MultipleBegin
    \/ Generate
    \/ Scan
    \/ Evict
    \/ PrintResult

Spec == Init /\ [][Next]_vars

SpecWide == WideInit /\ [][Next]_vars

\* a run on two numbers: get_nearest_expression_2, then the output
NextTwo ==
    \/ Nearest2
    \/ PrintResult

SpecTwo == TwoInit /\ [][NextTwo]_vars

(***************************************************************************)
(* partitions on its own: every sorted index sequence of 2..MaxIdxLen      *)
(* indices, and one step that applies the function.                        *)
(***************************************************************************)
IdxSeqs == UNION {SortedSeqs(n, 0, MaxIdx) : n \in 2..MaxIdxLen}

PartitionsInit ==
    /\ idxs \in IdxSeqs
    /\ pc = "call_partitions"
    /\ parts = <<>>
    /\ nrs = <<>>
    /\ target = 0
    /\ pi = 1
    /\ cache = EmptyCache
    /\ best = ExprEmpty
    /\ best_min = RatZero
    /\ best_max = FromInteger(U64_MAX)
    /\ trace = <<>>
    /\ out = NoOutput

CallPartitions ==
    /\ pc = "call_partitions"
    /\ parts' = partitions(idxs)
    /\ pc' = "partitions_returned"
    /\ UNCHANGED <<nrs, target, idxs, pi, cache, best, best_min, best_max,
                   trace, out>>

SpecPartitions == PartitionsInit /\ [][CallPartitions]_vars

(***************************************************************************)
(* Definitions used to state the properties.                               *)
(***************************************************************************)
\* the subsequence of s at the positions in P
RECURSIVE PickFrom(_, _, _)
PickFrom(s, P, i) ==
    IF i > Len(s) THEN <<>>
    ELSE (IF i \in P THEN <<s[i]>> ELSE <<>>) \o PickFrom(s, P, i + 1)

Pick(s, P) == PickFrom(s, P, 1)

\* the non-empty sub-multisets of a sorted sequence
SubMultisets(s) == {Pick(s, P) : P \in (SUBSET (1..Len(s))) \ {{}}}

\* the six ways to join two values, under the two guards only
RefJoin(a, b) ==
    {RatAdd(a, b), RatMul(a, b)}
    \cup (IF RatGe(a, b) THEN {RatSub(a, b)} ELSE {})
    \cup (IF RatGe(b, a) THEN {RatSub(b, a)} ELSE {})
    \cup (IF ~IsZero(b) THEN {RatDiv(a, b)} ELSE {})
    \cup (IF ~IsZero(a) THEN {RatDiv(b, a)} ELSE {})

\* the values of all expressions that use every number of vs exactly once:
\* every split in two non-empty parts, every pair of values, every join
RECURSIVE RefVals(_)
RefVals(vs) ==
    IF Len(vs) = 1 THEN {FromInteger(vs[1])}
    ELSE UNION {
           UNION {RefJoin(a, b) :
                    a \in RefVals(Pick(vs, {1} \cup Q)),
                    b \in RefVals(Pick(vs, (2..Len(vs)) \ Q))} :
           Q \in (SUBSET (2..Len(vs))) \ {2..Len(vs)}}

\* the numbers at the indices of S
NumbersAt(S) == [i \in 1..Len(S) |-> nrs[S[i] + 1]]

\* evaluation of a reverse-Polish sequence on a stack, from the operations
\* alone: wf = no pop of a missing operand and no index out of range,
\* safe = no subtraction below zero and no division by zero
RECURSIVE EvalFrom(_, _, _, _)
EvalFrom(ops, i, st, ns) ==
    IF i > Len(ops) \/ ~st.wf THEN st
    ELSE IF IsOperator(ops[i])
    THEN IF Len(st.stack) < 2 THEN [st EXCEPT !.wf = FALSE]
         ELSE LET n     == Len(st.stack)
                  right == st.stack[n]
                  left  == st.stack[n - 1]
                  rest  == SubSeq(st.stack, 1, n - 2)
                  bad   == \/ ops[i] = SUB /\ RatLt(left, right)
                           \/ ops[i] = DIV /\ IsZero(right)
                  res   == IF bad THEN RatZero
                           ELSE IF ops[i] = ADD THEN RatAdd(left, right)
                           ELSE IF ops[i] = SUB THEN RatSub(left, right)
                           ELSE IF ops[i] = MUL THEN RatMul(left, right)
                           ELSE RatDiv(left, right)
              IN EvalFrom(ops, i + 1,
                          [stack |-> Append(rest, res), wf |-> TRUE,
                           safe |-> st.safe /\ ~bad], ns)
    ELSE IF ops[i] >= Len(ns) THEN [st EXCEPT !.wf = FALSE]
         ELSE EvalFrom(ops, i + 1,
                       [st EXCEPT !.stack = Append(@, FromInteger(ns[ops[i] + 1]))],
                       ns)

Eval(ops, ns) == EvalFrom(ops, 1, [stack |-> <<>>, wf |-> TRUE, safe |-> TRUE], ns)

\* the indices an expression pushes, sorted
PushedIndices(ops) == SortIdxFrom(SelectSeq(ops, LAMBDA o : ~IsOperator(o)), 1, <<>>)

\* e is well formed, pushes exactly the indices of S, and evaluates to e.val
Sound(e, S) ==
    LET r == Eval(e.ops, nrs)
    IN /\ r.wf
       /\ Len(r.stack) = 1
       /\ PushedIndices(e.ops) = S
       /\ r.safe
       /\ r.stack[1] = e.val

\* every subtraction and division of e is within its guard
Safe(e) == LET r == Eval(e.ops, nrs) IN r.wf /\ r.safe

\* all expressions stored in the cache
CachedExprs == UNION {{cache[k][i] : i \in 1..Len(cache[k])} : k \in DOMAIN cache}

Returned == pc \in {"print", "done"}

\* the pairs of expressions possible_combinations is called with in a
\* partition of the search: every pair of the two cache entries
PartitionPairs ==
    LET exprs0 == cache[CacheKey(nrs, parts[pi][1])]
        exprs1 == cache[CacheKey(nrs, parts[pi][2])]
    IN {<<exprs0[i], exprs1[j]>> : i \in 1..Len(exprs0), j \in 1..Len(exprs1)}

\* the pairs the last step has handed to possible_combinations: Scan, the
\* pairs of its partition; get_nearest_expression_2, the two input numbers
HandedPairs ==
    IF pc = "evict" THEN PartitionPairs
    ELSE IF pc = "print" /\ Len(nrs) = 2
    THEN {<<ExprNew(nrs, 0), ExprNew(nrs, 1)>>}
    ELSE {}

\* those, and the pairs the next step is about to hand over
OfferedPairs ==
    IF pc = "scan" THEN PartitionPairs
    ELSE IF pc = "start" /\ Len(nrs) = 2
    THEN {<<ExprNew(nrs, 0), ExprNew(nrs, 1)>>}
    ELSE HandedPairs

Offers(pair, op) ==
    LET combs == possible_combinations(pair[1], pair[2])
    IN \E i \in 1..Len(combs) : combs[i].op = op

IsOne(a) == a.n = 1 /\ a.d = 1

\* the decisions of the discipline of get_nearest_expression_2 (lines
\* 454-463), "a strictly smaller diff replaces best, stop on diff zero",
\* on the candidate values vals
RECURSIVE SimpleDecisions(_, _, _, _)
SimpleDecisions(vals, i, best_diff, rtarget) ==
    IF i > Len(vals) THEN <<>>
    ELSE LET diff == IF RatGt(vals[i], rtarget) THEN RatSub(vals[i], rtarget)
                     ELSE RatSub(rtarget, vals[i])
         IN IF RatLt(diff, best_diff)
            THEN IF IsZero(diff) THEN <<TRUE>>
                 ELSE <<TRUE>> \o SimpleDecisions(vals, i + 1, diff, rtarget)
            ELSE <<FALSE>> \o SimpleDecisions(vals, i + 1, best_diff, rtarget)

(***************************************************************************)
(* The properties.                                                         *)
(***************************************************************************)

\* C1: for three or more inputs the value of the returned expression is as
\* near to the target as any value an expression that uses every input once
\* can have.
C1_NearestOfAll ==
    (Returned /\ Len(nrs) >= 3) =>
        \A v \in RefVals(nrs) :
            ~RatLt(AbsDiff(v, FromInteger(target)),
                   AbsDiff(best.val, FromInteger(target)))

\* C2: the driver never returns the empty placeholder expression, and
\* rendering the returned expression never pops an empty stack.
C2_NeverEmpty ==
    /\ Returned => best /= ExprEmpty
    /\ pc = "done" => ~out.panicked

\* C3: for two inputs a, b the returned value is one of, and is nearest to
\* the target among, a+b, a-b (a >= b), b-a (b >= a), a*b, a/b (b not 0 or
\* 1), b/a (a not 0 or 1).
C3_TwoNumbers ==
    (Returned /\ Len(nrs) = 2) =>
        LET a == FromInteger(nrs[1])
            b == FromInteger(nrs[2])
            t == FromInteger(target)
            vals == {RatAdd(a, b), RatMul(a, b)}
                    \cup (IF RatGe(a, b) THEN {RatSub(a, b)} ELSE {})
                    \cup (IF RatGe(b, a) THEN {RatSub(b, a)} ELSE {})
                    \cup (IF ~IsZero(b) /\ ~IsOne(b) THEN {RatDiv(a, b)} ELSE {})
                    \cup (IF ~IsZero(a) /\ ~IsOne(a) THEN {RatDiv(b, a)} ELSE {})
        IN /\ best.val \in vals
           /\ \A v \in vals : ~RatLt(AbsDiff(v, t), AbsDiff(best.val, t))

\* 5*5 is accepted although 5+5 was the best before it
C3_Witness ==
    /\ pc = "done"
    /\ nrs = <<5, 5>>
    /\ target = 25
    /\ best.val = FromInteger(25)
    /\ out.text = "5*5"

\* C4: every cached expression of a sub-multiset S, and the expression the
\* driver builds from two of them, is well-formed reverse-Polish, pushes
\* exactly the indices of S, and evaluates to its stored val.
C4_ExprsSound ==
    /\ \A S \in SubMultisets(idxs) :
          CacheKey(nrs, S) \in DOMAIN cache =>
              \A i \in 1..Len(cache[CacheKey(nrs, S)]) :
                  Sound(cache[CacheKey(nrs, S)][i], S)
    /\ DOMAIN cache \subseteq {CacheKey(nrs, S) : S \in SubMultisets(idxs)}
    /\ (Len(nrs) >= 3 /\ best /= ExprEmpty) => Sound(best, idxs)

C4_Witness ==
    /\ pc = "evict"
    /\ Len(best.ops) = 5
    /\ \E e \in CachedExprs : Len(e.ops) = 3 /\ Last(e.ops) = DIV

\* C5: no cache entry holds two expressions of equal value.
C5_DistinctValues ==
    \A k \in DOMAIN cache :
        \A i, j \in 1..Len(cache[k]) :
            i /= j => RatCmp(cache[k][i].val, cache[k][j].val) /= 0

\* the entry of {2, 2}: six combinations, three values
C5_Witness ==
    /\ "2_2" \in DOMAIN cache
    /\ Len(cache["2_2"]) = 3

\* C6: no expression of the generator or of a driver subtracts a greater
\* value from a smaller one or divides by zero at any step.
C6_NoNegativeNoZeroDivision ==
    /\ \A e \in CachedExprs : Safe(e)
    /\ best /= ExprEmpty => Safe(best)

\* a zero-valued sub-expression is in the cache and a result was built
C6_Witness ==
    /\ pc = "evict"
    /\ best /= ExprEmpty
    /\ \E n \in 1..Len(nrs) : nrs[n] = 0
    /\ \E e \in CachedExprs : Len(e.ops) = 3 /\ IsZero(e.val)

Unordered(p) == {p[1], p[2]}

\* C8: partitions returns the unordered splits of the index multiset in two
\* non-empty parts, each exactly once, none with an empty half.
C8_PartitionsExact ==
    pc = "partitions_returned" =>
        LET all == 1..Len(idxs)
            splits == {{Pick(idxs, P), Pick(idxs, all \ P)} :
                         P \in (SUBSET all) \ {{}, all}}
        IN /\ {Unordered(parts[i]) : i \in 1..Len(parts)} = splits
           /\ \A i, j \in 1..Len(parts) :
                 i /= j => Unordered(parts[i]) /= Unordered(parts[j])
           /\ \A i \in 1..Len(parts) : parts[i][1] /= <<>> /\ parts[i][2] /= <<>>

\* a repeated index: sixteen placements, five splits
C8_Witness ==
    /\ pc = "partitions_returned"
    /\ idxs = <<0, 1, 1, 3>>
    /\ Len(parts) = 5

\* C9: pruning loses no value: every cache entry has the values of the
\* reference search on its sub-multiset, and a search that ran to the end
\* examined every value of the reference search on the whole input.
C9_PruningLosesNoValue ==
    /\ \A S \in SubMultisets(idxs) :
          CacheKey(nrs, S) \in DOMAIN cache =>
              {e.val : e \in {cache[CacheKey(nrs, S)][i] :
                                i \in 1..Len(cache[CacheKey(nrs, S)])}}
                  = RefVals(NumbersAt(S))
    /\ (pc = "print" /\ Len(nrs) >= 3 /\ pi > Len(parts)) =>
          {trace[i].val : i \in 1..Len(trace)} = RefVals(nrs)

\* C10: on the candidates the search examined, the acceptance window takes
\* the decisions of "a strictly smaller diff replaces best".
C10_WindowEqualsSimple ==
    SimpleDecisions([i \in 1..Len(trace) |-> trace[i].val], 1,
                    FromInteger(U64_MAX), FromInteger(target))
        = [i \in 1..Len(trace) |-> trace[i].accepted]

====
